---- MODULE Spec2Model ----
(***************************************************************************)
(* A model of the YouTube Shorts collector in its two editions:            *)
(*   - the API edition  (src/youtube_shorts_collector.py): ordered         *)
(*     provider fallback for metadata and transcripts, merge, export;      *)
(*   - the free edition (src/youtube_shorts_free.py): listing, per-video   *)
(*     metadata, captions-then-Whisper transcript pipeline, merge, export. *)
(* Python values are tagged records; Python strings are sequences of       *)
(* one-character strings so that split / replace / int() are computed.     *)
(***************************************************************************)
EXTENDS Integers, Sequences, FiniteSets, TLC

\* ------------------------------------------------------------------ bounds
\* Longest record list an external provider returns in one batch answer.
MaxRecs == 2
\* Longest record list an external provider returns for one URL.
MaxItemRecs == 1
\* Longest list of video ids the channel listing returns (free edition).
MaxVideos == 2

\* Segments of a transcript given as a list.
MaxSegs == 3

\* ---------------------------------------------------------- Python values
PyNone == [t |-> "none"]
PyStr(s) == [t |-> "str", v |-> s]
PyInt(n) == [t |-> "int", v |-> n]
PyList(l) == [t |-> "list", v |-> l]
PyDict(d) == [t |-> "dict", v |-> d]

\* Python truthiness of a value.
Truthy(x) ==
    CASE x.t = "none" -> FALSE
      [] x.t = "str"  -> x.v # <<>>
      [] x.t = "int"  -> x.v # 0
      [] x.t = "list" -> x.v # <<>>
      [] x.t = "dict" -> DOMAIN x.v # {}

\* a or b
Or(a, b) == IF Truthy(a) THEN a ELSE b

\* mapping.get(key): the value, or None when the key is absent.
Get(item, key) == IF key \in DOMAIN item THEN item[key] ELSE PyNone

\* mapping.get(key, default)
GetOr(item, key, default) == IF key \in DOMAIN item THEN item[key] ELSE default

\* ---------------------------------------------------------------- strings
PatShorts == <<"y","o","u","t","u","b","e",".","c","o","m","/","s","h","o","r","t","s","/">>
PatWatch == <<"y","o","u","t","u","b","e",".","c","o","m","/","w","a","t","c","h","?","v","=">>
PatShortDomain == <<"y","o","u","t","u",".","b","e","/">>
ShortsPrefix == <<"h","t","t","p","s",":","/","/","w","w","w",".","y","o","u","t","u","b","e",".","c","o","m","/","s","h","o","r","t","s","/">>
ViewsSuffix == <<" ","v","i","e","w","s">>
NA == <<"N","/","A">>
Empty == <<>>

MatchAt(s, p, i) ==
    /\ i >= 1
    /\ i + Len(p) - 1 <= Len(s)
    /\ SubSeq(s, i, i + Len(p) - 1) = p

\* Index of the first occurrence of p in s, 0 when there is none (str.find + 1).
FirstOcc(s, p) ==
    LET occ == {i \in 1..Len(s) : MatchAt(s, p, i)}
    IN IF occ = {} THEN 0 ELSE CHOOSE i \in occ : \A j \in occ : i <= j

\* pattern in s
Contains(s, p) == FirstOcc(s, p) # 0

\* s.split(p): the parts between the non-overlapping occurrences, left to right.
RECURSIVE SplitSeq(_, _)
SplitSeq(s, p) ==
    LET i == FirstOcc(s, p)
    IN IF i = 0
       THEN <<s>>
       ELSE <<SubSeq(s, 1, i - 1)>> \o SplitSeq(SubSeq(s, i + Len(p), Len(s)), p)

RECURSIVE Flatten(_)
Flatten(parts) ==
    IF parts = <<>> THEN <<>> ELSE Head(parts) \o Flatten(Tail(parts))

\* s.replace(p, "")
Remove(s, p) == Flatten(SplitSeq(s, p))

\* A faulty join: the parts come out last first.
RECURSIVE JoinReversed(_, _)
JoinReversed(parts, sep) ==
    IF parts = <<>> THEN <<>>
    ELSE IF Len(parts) = 1 THEN Head(parts)
    ELSE JoinReversed(Tail(parts), sep) \o sep \o Head(parts)

\* sep.join(parts)
RECURSIVE Join(_, _)
Join(parts, sep) ==
    IF parts = <<>> THEN <<>>
    ELSE IF Len(parts) = 1 THEN Head(parts)
    ELSE Head(parts) \o sep \o Join(Tail(parts), sep)

\* s.strip() for the blank character.
RECURSIVE Strip(_)
Strip(s) ==
    IF s = <<>> THEN s
    ELSE IF Head(s) = " " THEN Strip(Tail(s))
    ELSE IF s[Len(s)] = " " THEN Strip(SubSeq(s, 1, Len(s) - 1))
    ELSE s

DigitChars == {"0","1","2","3","4","5","6","7","8","9"}

DigitVal(c) ==
    CASE c = "0" -> 0 [] c = "1" -> 1 [] c = "2" -> 2 [] c = "3" -> 3
      [] c = "4" -> 4 [] c = "5" -> 5 [] c = "6" -> 6 [] c = "7" -> 7
      [] c = "8" -> 8 [] c = "9" -> 9

DigitChar(n) ==
    CASE n = 0 -> "0" [] n = 1 -> "1" [] n = 2 -> "2" [] n = 3 -> "3"
      [] n = 4 -> "4" [] n = 5 -> "5" [] n = 6 -> "6" [] n = 7 -> "7"
      [] n = 8 -> "8" [] n = 9 -> "9"

\* The unsigned part of an int() literal: the text without blanks and sign.
IntBody(s) ==
    LET t == Strip(s)
    IN IF t # <<>> /\ t[1] \in {"+", "-"} THEN Tail(t) ELSE t

\* Whether int(s) succeeds (no ValueError): blanks, a sign, decimal digits.
IsIntLiteral(s) ==
    LET b == IntBody(s)
    IN b # <<>> /\ \A i \in 1..Len(b) : b[i] \in DigitChars

RECURSIVE DigitsValue(_)
DigitsValue(b) ==
    IF b = <<>> THEN 0
    ELSE 10 * DigitsValue(SubSeq(b, 1, Len(b) - 1)) + DigitVal(b[Len(b)])

\* int(s) for a literal s.
IntValue(s) ==
    LET t == Strip(s)
    IN IF t[1] = "-" THEN 0 - DigitsValue(IntBody(s)) ELSE DigitsValue(IntBody(s))

RECURSIVE NatToStr(_)
NatToStr(n) ==
    IF n < 10 THEN <<DigitChar(n)>> ELSE NatToStr(n \div 10) \o <<DigitChar(n % 10)>>

\* str(x) for the shapes that reach it.
StrOf(x) ==
    CASE x.t = "str"  -> x.v
      [] x.t = "int"  -> IF x.v < 0 THEN <<"-">> \o NatToStr(0 - x.v) ELSE NatToStr(x.v)
      [] x.t = "none" -> <<"N","o","n","e">>
      [] OTHER        -> <<"?">>

\* ------------------------------------------- API edition: merging helpers
\* The (pattern, split_char) table of extract_video_id, in its order.
UrlPatterns ==
    << [pattern |-> PatShorts,      split_char |-> <<"?">>],
       [pattern |-> PatWatch,       split_char |-> <<"&">>],
       [pattern |-> PatShortDomain, split_char |-> <<"?">>] >>

\* url.split(pattern)[-1].split(split_char)[0]
IdFromUrl(url, pattern, split_char) ==
    LET parts == SplitSeq(url, pattern)
    IN Head(SplitSeq(parts[Len(parts)], split_char))

\* A faulty extraction: a URL of a known convention is preferred to the id fields.
ExtractVideoIdUrlFirst(item) ==
    LET video_id == Or(Get(item, "id"), Get(item, "videoId"))
        url == Or(Or(Get(item, "url"), Get(item, "videoUrl")), PyStr(Empty))
        hits == {i \in 1..Len(UrlPatterns) : Contains(url.v, UrlPatterns[i].pattern)}
        first == CHOOSE i \in hits : \A j \in hits : i <= j
    IN IF hits = {} THEN video_id
       ELSE PyStr(IdFromUrl(url.v, UrlPatterns[first].pattern,
                            UrlPatterns[first].split_char))

extract_video_id(item) ==
    LET video_id == Or(Get(item, "id"), Get(item, "videoId"))
        url == Or(Or(Get(item, "url"), Get(item, "videoUrl")), PyStr(Empty))
        hits == {i \in 1..Len(UrlPatterns) : Contains(url.v, UrlPatterns[i].pattern)}
        first == CHOOSE i \in hits : \A j \in hits : i <= j
    IN IF Truthy(video_id) THEN video_id
       ELSE IF hits = {} THEN video_id
       ELSE PyStr(IdFromUrl(url.v, UrlPatterns[first].pattern,
                            UrlPatterns[first].split_char))

\* One segment of a transcript list: its text (or content) field, or str(seg).
SegmentText(seg) ==
    IF seg.t = "dict"
    THEN Or(GetOr(seg.v, "text", PyStr(Empty)), GetOr(seg.v, "content", PyStr(Empty))).v
    ELSE StrOf(seg)

extract_transcript_text(data) ==
    CASE data.t = "str"  -> data
      [] data.t = "dict" ->
            Or(GetOr(data.v, "text", PyStr(Empty)), GetOr(data.v, "content", PyStr(Empty)))
      [] data.t = "list" ->
            PyStr(Join([i \in 1..Len(data.v) |-> SegmentText(data.v[i])], <<" ">>))
      [] OTHER -> PyStr(StrOf(data))

\* The transcript-bearing field of a transcript record, as merge_data reads it.
TranscriptPayload(t) ==
    Or(Or(Or(Or(Or(Or(Get(t, "transcript"), Get(t, "text")), Get(t, "captions")),
                Get(t, "transcription")), Get(t, "content")), Get(t, "subtitles")),
       PyStr(Empty))

\* A faulty store: a key that has an entry keeps it (first writer wins).
MapPutKeepFirst(m, k, v) ==
    [x \in DOMAIN m \cup {k} |-> IF x \in DOMAIN m THEN m[x] ELSE v]

\* transcript_map[k] = v
MapPut(m, k, v) == [x \in DOMAIN m \cup {k} |-> IF x = k THEN v ELSE m[x]]

\* A faulty lookup: a key without an entry gets the text of some other key.
MapGetAnyEntry(m, k, default) ==
    IF k \in DOMAIN m THEN m[k]
    ELSE IF DOMAIN m = {} THEN default
    ELSE m[CHOOSE x \in DOMAIN m : TRUE]

\* transcript_map.get(k, default)
MapGet(m, k, default) == IF k \in DOMAIN m THEN m[k] ELSE default

EmptyMap == [x \in {} |-> PyNone]

\* A faulty first loop: a record is stored whether or not it has an identifier.
RECURSIVE BuildTranscriptMapUnguarded(_, _)
BuildTranscriptMapUnguarded(transcripts, m) ==
    IF transcripts = <<>> THEN m
    ELSE LET t == Head(transcripts)
         IN BuildTranscriptMapUnguarded(
                Tail(transcripts),
                MapPut(m, extract_video_id(t), extract_transcript_text(TranscriptPayload(t))))

\* The first loop of merge_data: the transcript map, later records overwriting.
RECURSIVE BuildTranscriptMap(_, _)
BuildTranscriptMap(transcripts, m) ==
    IF transcripts = <<>> THEN m
    ELSE LET t == Head(transcripts)
             vid == extract_video_id(t)
         IN BuildTranscriptMap(
                Tail(transcripts),
                IF Truthy(vid)
                THEN MapPut(m, vid, extract_transcript_text(TranscriptPayload(t)))
                ELSE m)

\* views: the replace(",") / replace(" views") / int() block of merge_data.
CoerceViews(views) ==
    IF views.t = "str"
    THEN LET cleaned == Remove(Remove(views.v, <<",">>), ViewsSuffix)
         IN IF IsIntLiteral(cleaned) THEN PyInt(IntValue(cleaned)) ELSE PyStr(cleaned)
    ELSE views

\* likes: the replace(",") / int() block of merge_data.
CoerceLikes(likes) ==
    IF likes.t = "str"
    THEN LET cleaned == Remove(likes.v, <<",">>)
         IN IF IsIntLiteral(cleaned) THEN PyInt(IntValue(cleaned)) ELSE PyStr(cleaned)
    ELSE likes

\* The canonical record merge_data appends for one metadata record.
CanonicalRecord(short, transcript_map) ==
    LET video_id == extract_video_id(short)
        views == CoerceViews(Or(Or(Get(short, "viewCount"), Get(short, "views")),
                                Get(short, "view_count")))
        likes == CoerceLikes(Or(Or(Get(short, "likeCount"), Get(short, "likes")),
                                Get(short, "like_count")))
        url0 == Or(Get(short, "url"), Get(short, "videoUrl"))
        url == IF ~Truthy(url0) /\ Truthy(video_id)
               THEN PyStr(ShortsPrefix \o StrOf(video_id))
               ELSE url0
    IN [ title |-> Or(Or(Get(short, "title"), Get(short, "name")), PyStr(NA)),
         views |-> views,
         likes |-> likes,
         release_date |-> Or(Or(Or(Get(short, "uploadDate"), Get(short, "date")),
                                Get(short, "publishedAt")), PyStr(NA)),
         video_url |-> url,
         video_id |-> video_id,
         transcript |-> MapGet(transcript_map, video_id, PyStr(NA)) ]

\* A faulty second loop: a record without an identifier is left out.
RECURSIVE MergeLoopDropsNoId(_, _)
MergeLoopDropsNoId(shorts_data, transcript_map) ==
    IF shorts_data = <<>> THEN <<>>
    ELSE (IF Truthy(extract_video_id(Head(shorts_data)))
          THEN <<CanonicalRecord(Head(shorts_data), transcript_map)>> ELSE <<>>)
         \o MergeLoopDropsNoId(Tail(shorts_data), transcript_map)

\* The second loop of merge_data: one canonical record per metadata record.
RECURSIVE MergeLoop(_, _)
MergeLoop(shorts_data, transcript_map) ==
    IF shorts_data = <<>> THEN <<>>
    ELSE <<CanonicalRecord(Head(shorts_data), transcript_map)>>
         \o MergeLoop(Tail(shorts_data), transcript_map)

merge_data(shorts_data, transcripts) ==
    MergeLoop(shorts_data, BuildTranscriptMap(transcripts, EmptyMap))

\* ------------------------------------------- API edition: provider tables
\* METADATA_ACTORS, by name, in list order.
METADATA_ACTORS == <<"streamers", "apidojo", "clockworks">>

\* TRANSCRIPT_ACTORS: the batch flag of each entry, in list order.
TRANSCRIPT_ACTORS ==
    <<TRUE, TRUE, TRUE, FALSE, TRUE, FALSE, TRUE, TRUE, TRUE, TRUE, TRUE>>

\* ----------------------------------------------- what providers may return
IdA == <<"a","1">>
IdB == <<"b","2">>
UrlB == <<"h","t","t","p","s",":","/","/","y","o","u","t","u","b","e",".","c","o","m","/","s","h","o","r","t","s","/","b","2","?","f","=","1">>
UrlWatchB == <<"h","t","t","p","s",":","/","/","w","w","w",".","y","o","u","t","u","b","e",".","c","o","m","/","w","a","t","c","h","?","v","=","b","2","&","t","=","1">>

\* Raw metadata records: a direct id, a short-form URL only, neither.
MetaA ==
    [ id |-> PyStr(IdA), title |-> PyStr(<<"T">>),
      viewCount |-> PyStr(<<"1",",","2","3","4"," ","v","i","e","w","s">>),
      likes |-> PyInt(5), date |-> PyStr(<<"2","0","2","4">>) ]
MetaB ==
    [ url |-> PyStr(UrlB), name |-> PyStr(<<"N">>),
      likeCount |-> PyStr(<<"1","2",",","0","0","0">>) ]
MetaC ==
    [ title |-> PyStr(<<"U">>), views |-> PyStr(NA) ]
SampleMeta == {MetaA, MetaB, MetaC}

\* Raw transcript records: text under "transcript", a segment list under "text"
\* with the id in a watch URL, text under "captions" only, an empty placeholder.
TrA == [ id |-> PyStr(IdA), transcript |-> PyStr(<<"h","i">>) ]
TrB ==
    [ url |-> PyStr(UrlWatchB),
      text |-> PyList(<< PyDict([text |-> PyStr(<<"x">>)]),
                         PyDict([text |-> PyStr(<<"y">>)]) >>) ]
TrC == [ id |-> PyStr(IdA), captions |-> PyStr(<<"c","c">>) ]
TrD == [ id |-> PyStr(IdB), text |-> PyStr(Empty) ]
SampleTrans == {TrA, TrB, TrC, TrD}
SampleItemTrans == {TrA, TrD}

\* All sequences over S of length at most n.
SeqsUpTo(S, n) == UNION {[1..k -> S] : k \in 0..n}

\* The outcome of one provider invocation: it raises, or its dataset is fetched.
Raised == [raised |-> TRUE, items |-> <<>>]
Fetched(items) == [raised |-> FALSE, items |-> items]
MetaOutcomes == {Raised} \cup {Fetched(r) : r \in SeqsUpTo(SampleMeta, MaxRecs)}
BatchOutcomes == {Raised} \cup {Fetched(r) : r \in SeqsUpTo(SampleTrans, MaxRecs)}
ItemOutcomes == {Raised} \cup {Fetched(r) : r \in SeqsUpTo(SampleItemTrans, MaxItemRecs)}

\* ------------------------------------------------------------------ state
VARIABLES
    pc,            \* position of the run in main()
    actor_idx,     \* index of the provider the current fallback loop is at
    shorts_data,   \* API: the metadata records / free: metadata_list
    video_urls,    \* API collect_transcripts: the derived URL list
    url_idx,       \* _run_single_actor: index of the next URL
    all_items,     \* _run_single_actor: the records gathered so far
    transcripts,   \* API: what collect_transcripts returned
    final_data,    \* what merge_data returned
    exported,      \* whether export_data wrote the output file
    tried,         \* history: provider attempts of the current loop, [p, failed]
    last_out,      \* history: the record set of the latest provider attempt
    calls,         \* history: provider invocations of the transcript loop, [p, u]
    url_outs,      \* history: per-URL outcomes of the current per-item attempt
    pred_evals,    \* history: record sets the predicate saw in the current attempt
    edition,       \* which program runs: "api" or "free"
    use_whisper,   \* free: not --no-whisper
    WHISPER_AVAILABLE, \* free: whether "import whisper" succeeded
    video_ids,     \* free: what list_shorts returned
    metadata_list, \* free: what collect_metadata gathered
    item_idx,      \* free: index of the next item of the current per-item loop
    transcript_map,\* free collect_transcripts: video id -> text
    missing,       \* free collect_transcripts: ids without captions, in order
    temp_dir,      \* free: files in the temporary directory, <<video id, ext>>
    caption_log,   \* history: caption lookups, [id, found]
    load_count,    \* history: calls of load_model
    audio_log,     \* history: ids download_audio was called for
    stt_log,       \* history: ids whisper_transcribe was called for
    released,      \* history: the files the temporary directory held when it was removed
    arg,           \* the input of a function applied on its own
    result         \* what that function returned

\* State of the API edition only, of the free edition only, and all of it.
apiVars ==
    << actor_idx, shorts_data, video_urls, url_idx, all_items, transcripts,
       tried, last_out, calls, url_outs, pred_evals >>
freeVars ==
    << use_whisper, WHISPER_AVAILABLE, video_ids, metadata_list, item_idx,
       transcript_map, missing, temp_dir, caption_log, load_count, audio_log,
       stt_log, released >>
pureVars == << arg, result >>
vars == << pc, edition, final_data, exported, apiVars, freeVars, pureVars >>

\* No function is applied on its own while a whole run is modelled.
PureIdle ==
    /\ arg = PyNone
    /\ result = PyNone

\* The free edition's state while the API edition runs.
FreeIdle ==
    /\ use_whisper = FALSE
    /\ WHISPER_AVAILABLE = FALSE
    /\ video_ids = <<>>
    /\ metadata_list = <<>>
    /\ item_idx = 1
    /\ transcript_map = EmptyMap
    /\ missing = <<>>
    /\ temp_dir = {}
    /\ caption_log = <<>>
    /\ load_count = 0
    /\ audio_log = <<>>
    /\ stt_log = <<>>
    /\ released = {}

\* The API edition's state while the free edition runs.
ApiIdle ==
    /\ actor_idx = 1
    /\ shorts_data = <<>>
    /\ video_urls = <<>>
    /\ url_idx = 1
    /\ all_items = <<>>
    /\ transcripts = <<>>
    /\ tried = <<>>
    /\ last_out = <<>>
    /\ calls = <<>>
    /\ url_outs = <<>>
    /\ pred_evals = <<>>

\* ----------------------------------------- API edition: the fallback loops
\* The success test of collect_shorts_metadata: "if data".
MetaSuccess(data) == data # <<>>

\* any(t.get("transcript") or t.get("text") for t in items), items non-empty.
_has_transcript(items) ==
    /\ items # <<>>
    /\ \E i \in 1..Len(items) :
          Truthy(Or(Get(items[i], "transcript"), Get(items[i], "text")))

\* A faulty loop body: an invocation error is not caught and leaves the loop.
MetadataAttemptUncaught(outcome) ==
    IF outcome.raised THEN [kind |-> "raise", data |-> <<>>]
    ELSE IF MetaSuccess(outcome.items) THEN [kind |-> "return", data |-> outcome.items]
    ELSE [kind |-> "next", data |-> <<>>]

\* One iteration of the for loop of collect_shorts_metadata, given what the
\* provider did: return the data, or go on to the next actor.
MetadataAttempt(outcome) ==
    IF outcome.raised THEN [kind |-> "next", data |-> <<>>]
    ELSE IF MetaSuccess(outcome.items) THEN [kind |-> "return", data |-> outcome.items]
    ELSE [kind |-> "next", data |-> <<>>]

\* A faulty loop body: a successful answer does not end the loop.
TranscriptAttemptNoReturn(outcome) == [kind |-> "next", data |-> <<>>]

\* One iteration of the for loop of collect_transcripts, given the items the
\* runner produced (or that the runner raised).
TranscriptAttempt(outcome) ==
    IF outcome.raised THEN [kind |-> "next", data |-> <<>>]
    ELSE IF _has_transcript(outcome.items) THEN [kind |-> "return", data |-> outcome.items]
    ELSE [kind |-> "next", data |-> <<>>]

\* A faulty loop body: a failing URL throws away what was gathered before it.
RunSingleStepDropsOnFailure(items, outcome) ==
    IF outcome.raised THEN <<>> ELSE items \o outcome.items

\* The body of the loop of _run_single_actor for one URL.
RunSingleStep(items, outcome) ==
    IF outcome.raised THEN items ELSE items \o outcome.items

\* The URL collect_transcripts derives for one metadata record (falsy: none).
VideoUrlOf(short) ==
    LET url == Or(Get(short, "url"), Get(short, "videoUrl"))
        vid == Or(Get(short, "id"), Get(short, "videoId"))
    IN IF Truthy(url) THEN url
       ELSE IF Truthy(vid) THEN PyStr(ShortsPrefix \o StrOf(vid))
       ELSE url

RECURSIVE VideoUrls(_)
VideoUrls(data) ==
    IF data = <<>> THEN <<>>
    ELSE (IF Truthy(VideoUrlOf(Head(data))) THEN <<VideoUrlOf(Head(data))>> ELSE <<>>)
         \o VideoUrls(Tail(data))

\* Whether the history counts an outcome as a failed attempt.
MetaFailed(outcome) == outcome.raised \/ ~MetaSuccess(outcome.items)
TransFailed(outcome) == outcome.raised \/ ~_has_transcript(outcome.items)

\* A faulty main: the run goes on with whatever the metadata stage returned.
MainAfterMetadataNoExit(data) == "urls"

\* main (API): "if not shorts_data: sys.exit(1)", else collect_transcripts.
MainAfterMetadata(data) == IF data = <<>> THEN "exit" ELSE "urls"

InitApi ==
    /\ pc = "meta"
    /\ edition = "api"
    /\ final_data = <<>>
    /\ exported = FALSE
    /\ ApiIdle
    /\ FreeIdle
    /\ PureIdle

\* collect_shorts_metadata: one actor is called; on success main goes on to
\* collect_transcripts.
MetaInvoke ==
    /\ pc = "meta"
    /\ actor_idx <= Len(METADATA_ACTORS)
    /\ \E outcome \in MetaOutcomes :
         LET r == MetadataAttempt(outcome)
         IN /\ tried' = Append(tried, [p |-> actor_idx, failed |-> MetaFailed(outcome)])
            /\ last_out' = outcome.items
            /\ IF r.kind = "return"
               THEN /\ shorts_data' = r.data
                    /\ pc' = MainAfterMetadata(r.data)
                    /\ actor_idx' = actor_idx
               ELSE /\ shorts_data' = shorts_data
                    /\ pc' = IF r.kind = "raise" THEN "crashed" ELSE "meta"
                    /\ actor_idx' = actor_idx + 1
    /\ UNCHANGED << video_urls, url_idx, all_items, transcripts, final_data, exported,
                    calls, url_outs, pred_evals, edition, freeVars, pureVars >>

\* collect_shorts_metadata ran out of actors: it returns [], and main exits.
MetaExhausted ==
    /\ pc = "meta"
    /\ actor_idx > Len(METADATA_ACTORS)
    /\ shorts_data' = <<>>
    /\ pc' = MainAfterMetadata(<<>>)
    /\ UNCHANGED << actor_idx, video_urls, url_idx, all_items, transcripts, final_data,
                    exported, tried, last_out, calls, url_outs, pred_evals, edition, freeVars, pureVars >>

\* collect_transcripts up to its loop: the URL list; no URL, no provider.
TranscriptsStart ==
    /\ pc = "urls"
    /\ video_urls' = VideoUrls(shorts_data)
    /\ tried' = <<>>
    /\ last_out' = <<>>
    /\ actor_idx' = 1
    /\ IF VideoUrls(shorts_data) = <<>>
       THEN /\ transcripts' = <<>>
            /\ pc' = "merge"
       ELSE /\ transcripts' = transcripts
            /\ pc' = "trans"
    /\ UNCHANGED << shorts_data, url_idx, all_items, final_data, exported, calls,
                    url_outs, pred_evals, edition, freeVars, pureVars >>

\* What the loop of collect_transcripts does with the runner's outcome.
TranscriptLoopStep(outcome) ==
    LET r == TranscriptAttempt(outcome)
    IN /\ tried' = Append(tried, [p |-> actor_idx, failed |-> TransFailed(outcome)])
       /\ last_out' = outcome.items
       /\ pred_evals' = IF outcome.raised THEN <<>> ELSE <<outcome.items>>
       /\ IF r.kind = "return"
          THEN /\ transcripts' = r.data
               /\ pc' = "merge"
               /\ actor_idx' = actor_idx
          ELSE /\ transcripts' = transcripts
               /\ pc' = IF r.kind = "raise" THEN "crashed" ELSE "trans"
               /\ actor_idx' = actor_idx + 1

\* A batch actor: one call with every URL.
TransBatch ==
    /\ pc = "trans"
    /\ actor_idx <= Len(TRANSCRIPT_ACTORS)
    /\ TRANSCRIPT_ACTORS[actor_idx]
    /\ \E outcome \in BatchOutcomes : TranscriptLoopStep(outcome)
    /\ calls' = Append(calls, [p |-> actor_idx, u |-> 0])
    /\ url_outs' = <<>>
    /\ UNCHANGED << shorts_data, video_urls, url_idx, all_items, final_data, exported,
                    edition, freeVars, pureVars >>

\* A per-item actor: _run_single_actor is entered.
SingleStart ==
    /\ pc = "trans"
    /\ actor_idx <= Len(TRANSCRIPT_ACTORS)
    /\ ~TRANSCRIPT_ACTORS[actor_idx]
    /\ all_items' = <<>>
    /\ url_idx' = 1
    /\ url_outs' = <<>>
    /\ pred_evals' = <<>>
    /\ pc' = "single"
    /\ UNCHANGED << actor_idx, shorts_data, video_urls, transcripts, final_data,
                    exported, tried, last_out, calls, edition, freeVars, pureVars >>

\* _run_single_actor: the call for one URL.
SingleCall ==
    /\ pc = "single"
    /\ url_idx <= Len(video_urls)
    /\ \E outcome \in ItemOutcomes :
         /\ all_items' = RunSingleStep(all_items, outcome)
         /\ url_outs' = Append(url_outs, outcome)
    /\ calls' = Append(calls, [p |-> actor_idx, u |-> url_idx])
    /\ url_idx' = url_idx + 1
    /\ UNCHANGED << pc, actor_idx, shorts_data, video_urls, transcripts, final_data,
                    exported, tried, last_out, pred_evals, edition, freeVars, pureVars >>

\* _run_single_actor returns all_items (its locals are gone); the loop tests them.
SingleDone ==
    /\ pc = "single"
    /\ url_idx > Len(video_urls)
    /\ TranscriptLoopStep(Fetched(all_items))
    /\ all_items' = <<>>
    /\ url_idx' = 1
    /\ UNCHANGED << shorts_data, video_urls, final_data, exported,
                    calls, url_outs, edition, freeVars, pureVars >>

\* collect_transcripts ran out of actors: it returns [].
TransExhausted ==
    /\ pc = "trans"
    /\ actor_idx > Len(TRANSCRIPT_ACTORS)
    /\ transcripts' = <<>>
    /\ pc' = "merge"
    /\ UNCHANGED << actor_idx, shorts_data, video_urls, url_idx, all_items, final_data,
                    exported, tried, last_out, calls, url_outs, pred_evals, edition, freeVars, pureVars >>

\* main: collect_transcripts has returned, its locals and the history of its
\* loop are gone; final_data = merge_data(shorts_data, transcripts).
Merge ==
    /\ pc = "merge"
    /\ final_data' = merge_data(shorts_data, transcripts)
    /\ pc' = "export"
    /\ actor_idx' = 1
    /\ video_urls' = <<>>
    /\ url_idx' = 1
    /\ all_items' = <<>>
    /\ tried' = <<>>
    /\ last_out' = <<>>
    /\ calls' = <<>>
    /\ url_outs' = <<>>
    /\ pred_evals' = <<>>
    /\ UNCHANGED << shorts_data, transcripts, exported, edition, freeVars, pureVars >>

\* main: export_data(final_data, output_file)
Export ==
    /\ pc = "export"
    /\ exported' = TRUE
    /\ pc' = "done"
    /\ UNCHANGED << actor_idx, shorts_data, video_urls, url_idx, all_items, transcripts,
                    final_data, tried, last_out, calls, url_outs, pred_evals, edition, freeVars, pureVars >>

\* ------------------------------------------------ free edition: functions
\* What scrapetube may list: entries with a videoId, and one without.
SampleVideos == { [videoId |-> PyStr(IdA)], [videoId |-> PyStr(IdB)], [title |-> PyStr(<<"U">>)] }

\* list_shorts: the videoId of every listed video that has one.
RECURSIVE list_shorts(_)
list_shorts(videos) ==
    IF videos = <<>> THEN <<>>
    ELSE (IF Truthy(Get(Head(videos), "videoId"))
          THEN <<Get(Head(videos), "videoId")>> ELSE <<>>)
         \o list_shorts(Tail(videos))

\* What yt-dlp's extract_info may answer: a full info, one with a date that is
\* not 8 characters and no title, or an error.
InfoFull ==
    [ title |-> PyStr(<<"T">>), view_count |-> PyInt(7), like_count |-> PyInt(0),
      upload_date |-> PyStr(<<"2","0","2","4","0","1","0","2">>) ]
InfoOdd == [ upload_date |-> PyStr(<<"2","0","2","4">>), view_count |-> PyInt(3) ]
InfoOutcomes == {Raised, Fetched(InfoFull), Fetched(InfoOdd)}

\* The YYYYMMDD -> YYYY-MM-DD block of get_video_metadata.
FormatUploadDate(upload_date) ==
    IF Truthy(upload_date) /\ Len(upload_date.v) = 8
    THEN PyStr(SubSeq(upload_date.v, 1, 4) \o <<"-">> \o SubSeq(upload_date.v, 5, 6)
               \o <<"-">> \o SubSeq(upload_date.v, 7, 8))
    ELSE upload_date

\* get_video_metadata, given what extract_info did (outcome.items is the info).
get_video_metadata(video_id, outcome) ==
    LET url == PyStr(ShortsPrefix \o StrOf(video_id))
        info == outcome.items
    IN IF outcome.raised
       THEN [ title |-> PyStr(NA), views |-> PyNone, likes |-> PyNone,
              release_date |-> PyStr(NA), video_url |-> url, video_id |-> video_id ]
       ELSE [ title |-> GetOr(info, "title", PyStr(NA)),
              views |-> Get(info, "view_count"),
              likes |-> Get(info, "like_count"),
              release_date |->
                  Or(FormatUploadDate(GetOr(info, "upload_date", PyStr(Empty))), PyStr(NA)),
              video_url |-> url,
              video_id |-> video_id ]

\* What YouTubeTranscriptApi.get_transcript may answer: an error, no segment,
\* one segment of text.
CaptionOutcomes ==
    { Raised, Fetched(<<>>), Fetched(<< [text |-> <<"h","i">>] >>) }

\* get_transcript_captions: the joined segment texts, or None on any error.
get_transcript_captions(outcome) ==
    IF outcome.raised THEN PyNone
    ELSE PyStr(Join([i \in 1..Len(outcome.items) |-> outcome.items[i].text], <<" ">>))

\* What yt-dlp's download may do in the temporary directory: write the mp3,
\* write a file of another extension, fail leaving nothing, fail leaving a
\* partial or unconverted file.
DownloadOutcomes ==
    { [raised |-> FALSE, files |-> {"mp3"}], [raised |-> FALSE, files |-> {"webm"}],
      [raised |-> TRUE, files |-> {}], [raised |-> TRUE, files |-> {"webm"}] }

\* The temporary directory after download_audio ran for video_id.
DirAfterDownload(dir, video_id, d) == dir \cup {<<video_id, ext>> : ext \in d.files}

\* download_audio: whether it returns the mp3 path (TRUE) or None (FALSE).
download_audio(dir, video_id, d) ==
    ~d.raised /\ <<video_id, "mp3">> \in DirAfterDownload(dir, video_id, d)

\* What model.transcribe may answer: an error, or a result mapping.
WhisperOutcomes ==
    { Raised, Fetched([text |-> PyStr(<<" ","y","o"," ">>)]),
      Fetched([text |-> PyStr(<<" "," ">>)]), Fetched([lang |-> PyStr(<<"e","n">>)]) }

\* whisper_transcribe: result.get("text", "").strip() or None; None on any error.
whisper_transcribe(outcome) ==
    IF outcome.raised THEN PyNone
    ELSE Or(PyStr(Strip(GetOr(outcome.items, "text", PyStr(Empty)).v)), PyNone)

\* transcript_map[video_id] = text if text else "N/A"
TextOrNA(text) == IF Truthy(text) THEN text ELSE PyStr(NA)

\* for vid in missing: transcript_map[vid] = "N/A"
RECURSIVE MarkMissing(_, _)
MarkMissing(m, ids) ==
    IF ids = <<>> THEN m ELSE MarkMissing(MapPut(m, Head(ids), PyStr(NA)), Tail(ids))

\* A faulty test: --no-whisper is ignored.
FallbackWantedIgnoringFlag(ids, flag) == ids # <<>>

\* The test "if missing and use_whisper" of collect_transcripts.
FallbackWanted(ids, flag) == ids # <<>> /\ flag

\* merge_data of the free edition: each entry gets its transcript.
RECURSIVE merge_data_free(_, _)
merge_data_free(entries, m) ==
    IF entries = <<>> THEN <<>>
    ELSE << [f \in DOMAIN Head(entries) \cup {"transcript"} |->
               IF f = "transcript" THEN MapGet(m, Head(entries).video_id, PyStr(NA))
               ELSE Head(entries)[f]] >>
         \o merge_data_free(Tail(entries), m)

\* ---------------------------------------------------- free edition: main
\* main (free): "if not video_ids: sys.exit(1)", else collect_metadata.
MainAfterListing(ids) == IF ids = <<>> THEN "exit" ELSE "f_meta"

InitFree ==
    /\ pc = "f_list"
    /\ edition = "free"
    /\ final_data = <<>>
    /\ exported = FALSE
    /\ ApiIdle
    /\ PureIdle
    /\ use_whisper \in BOOLEAN
    /\ WHISPER_AVAILABLE \in BOOLEAN
    /\ video_ids = <<>>
    /\ metadata_list = <<>>
    /\ item_idx = 1
    /\ transcript_map = EmptyMap
    /\ missing = <<>>
    /\ temp_dir = {}
    /\ caption_log = <<>>
    /\ load_count = 0
    /\ audio_log = <<>>
    /\ stt_log = <<>>
    /\ released = {}

\* main: video_ids = list_shorts(channel_url); no id, the run exits; an error
\* of scrapetube is caught nowhere.
ListShorts ==
    /\ pc = "f_list"
    /\ \/ \E videos \in SeqsUpTo(SampleVideos, MaxVideos) :
            /\ video_ids' = list_shorts(videos)
            /\ pc' = MainAfterListing(list_shorts(videos))
       \/ /\ video_ids' = video_ids
          /\ pc' = "crashed"
    /\ UNCHANGED << edition, final_data, exported, apiVars, pureVars, released, use_whisper,
                    WHISPER_AVAILABLE, metadata_list, item_idx, transcript_map, missing,
                    temp_dir, caption_log, load_count, audio_log, stt_log >>

\* collect_metadata: the metadata of one video.
CollectMetadataStep ==
    /\ pc = "f_meta"
    /\ item_idx <= Len(video_ids)
    /\ \E outcome \in InfoOutcomes :
         metadata_list' =
             Append(metadata_list, get_video_metadata(video_ids[item_idx], outcome))
    /\ item_idx' = item_idx + 1
    /\ UNCHANGED << pc, edition, final_data, exported, apiVars, pureVars, released, use_whisper,
                    WHISPER_AVAILABLE, video_ids, transcript_map, missing, temp_dir,
                    caption_log, load_count, audio_log, stt_log >>

\* collect_metadata returns; collect_transcripts starts its first phase.
CollectMetadataDone ==
    /\ pc = "f_meta"
    /\ item_idx > Len(video_ids)
    /\ pc' = "f_captions"
    /\ item_idx' = 1
    /\ transcript_map' = EmptyMap
    /\ missing' = <<>>
    /\ UNCHANGED << edition, final_data, exported, apiVars, pureVars, released, use_whisper,
                    WHISPER_AVAILABLE, video_ids, metadata_list, temp_dir, caption_log,
                    load_count, audio_log, stt_log >>

\* A faulty bookkeeping of the ids without captions: the latest one goes first.
AddMissingInFront(ids, video_id) == <<video_id>> \o ids

\* missing.append(vid): the ids without captions, in the order they were met.
AddMissing(ids, video_id) == Append(ids, video_id)

\* Phase 1 of collect_transcripts for one id: captions found, or the id is missing.
CaptionStep ==
    /\ pc = "f_captions"
    /\ item_idx <= Len(video_ids)
    /\ \E outcome \in CaptionOutcomes :
         LET video_id == video_ids[item_idx]
             text == get_transcript_captions(outcome)
         IN /\ IF Truthy(text)
               THEN /\ transcript_map' = MapPut(transcript_map, video_id, text)
                    /\ missing' = missing
               ELSE /\ transcript_map' = transcript_map
                    /\ missing' = AddMissing(missing, video_id)
            /\ caption_log' = Append(caption_log, [id |-> video_id, found |-> Truthy(text)])
    /\ item_idx' = item_idx + 1
    /\ UNCHANGED << pc, edition, final_data, exported, apiVars, pureVars, released, use_whisper,
                    WHISPER_AVAILABLE, video_ids, metadata_list, temp_dir, load_count,
                    audio_log, stt_log >>

\* After phase 1: the fallback is wanted and available, or every missing id
\* gets "N/A" and collect_transcripts returns.
CaptionsDone ==
    /\ pc = "f_captions"
    /\ item_idx > Len(video_ids)
    /\ IF FallbackWanted(missing, use_whisper) /\ WHISPER_AVAILABLE
       THEN /\ pc' = "f_load"
            /\ transcript_map' = transcript_map
       ELSE /\ pc' = "f_merge"
            /\ transcript_map' = MarkMissing(transcript_map, missing)
    /\ UNCHANGED << edition, final_data, exported, apiVars, pureVars, released, use_whisper,
                    WHISPER_AVAILABLE, video_ids, metadata_list, item_idx, missing,
                    temp_dir, caption_log, load_count, audio_log, stt_log >>

\* model = openai_whisper.load_model(...), outside any try: an error ends the
\* run; otherwise the temporary directory is created and phase 2 starts.
LoadModel ==
    /\ pc = "f_load"
    /\ load_count' = load_count + 1
    /\ \E loaded \in BOOLEAN :
         pc' = IF loaded THEN "f_fallback" ELSE "crashed"
    /\ temp_dir' = {}
    /\ item_idx' = 1
    /\ UNCHANGED << edition, final_data, exported, apiVars, pureVars, released, use_whisper,
                    WHISPER_AVAILABLE, video_ids, metadata_list, transcript_map, missing,
                    caption_log, audio_log, stt_log >>

\* A faulty release: the directory is left as it is.
TempDirCleanupKeeps(dir) == dir

\* Leaving "with tempfile.TemporaryDirectory() as temp_dir": the directory is
\* removed with everything in it.
TempDirCleanup(dir) == {}

\* A faulty loop body: an id whose download failed gets no entry.
FallbackBodyNoEntryOnFailure(dir, m, video_id, d, w, removed) ==
    LET after == DirAfterDownload(dir, video_id, d)
    IN IF download_audio(dir, video_id, d)
       THEN [ dir |-> IF removed THEN after \ {<<video_id, "mp3">>} ELSE after,
              map |-> MapPut(m, video_id, TextOrNA(whisper_transcribe(w))),
              transcribed |-> TRUE ]
       ELSE [ dir |-> after, map |-> m, transcribed |-> FALSE ]

\* The body of the phase-2 loop for one id, given what the download (d), the
\* transcription (w) and os.remove (removed) do: the directory and the map after it.
FallbackBody(dir, m, video_id, d, w, removed) ==
    LET after == DirAfterDownload(dir, video_id, d)
    IN IF download_audio(dir, video_id, d)
       THEN [ dir |-> IF removed THEN after \ {<<video_id, "mp3">>} ELSE after,
              map |-> MapPut(m, video_id, TextOrNA(whisper_transcribe(w))),
              transcribed |-> TRUE ]
       ELSE [ dir |-> after,
              map |-> MapPut(m, video_id, PyStr(NA)),
              transcribed |-> FALSE ]

\* Phase 2 of collect_transcripts for one missing id.
FallbackItem ==
    /\ pc = "f_fallback"
    /\ item_idx <= Len(missing)
    /\ \E d \in DownloadOutcomes, w \in WhisperOutcomes, removed \in BOOLEAN :
         LET video_id == missing[item_idx]
             r == FallbackBody(temp_dir, transcript_map, video_id, d, w, removed)
         IN /\ temp_dir' = r.dir
            /\ transcript_map' = r.map
            /\ audio_log' = Append(audio_log, video_id)
            /\ stt_log' = IF r.transcribed THEN Append(stt_log, video_id) ELSE stt_log
    /\ item_idx' = item_idx + 1
    /\ UNCHANGED << pc, edition, final_data, exported, apiVars, pureVars, released, use_whisper,
                    WHISPER_AVAILABLE, video_ids, metadata_list, missing, caption_log,
                    load_count >>

\* An error that neither "except Exception" nor "except OSError" catches (a
\* KeyboardInterrupt during the download or the transcription) leaves the loop
\* body with whatever the download wrote: the with block removes the
\* directory and the error ends the run.
FallbackItemEscapes ==
    /\ pc = "f_fallback"
    /\ item_idx <= Len(missing)
    /\ \E d \in DownloadOutcomes :
         LET after == DirAfterDownload(temp_dir, missing[item_idx], d)
         IN /\ temp_dir' = TempDirCleanup(after)
            /\ released' = after
    /\ audio_log' = Append(audio_log, missing[item_idx])
    /\ pc' = "crashed"
    /\ UNCHANGED << edition, final_data, exported, apiVars, pureVars, use_whisper,
                    WHISPER_AVAILABLE, video_ids, metadata_list, item_idx, transcript_map,
                    missing, caption_log, load_count, stt_log >>

\* The with block of the temporary directory is left: the directory is removed
\* with what is in it, and collect_transcripts returns.
FallbackDone ==
    /\ pc = "f_fallback"
    /\ item_idx > Len(missing)
    /\ temp_dir' = TempDirCleanup(temp_dir)
    /\ released' = temp_dir
    /\ pc' = "f_merge"
    /\ UNCHANGED << edition, final_data, exported, apiVars, pureVars, use_whisper,
                    WHISPER_AVAILABLE, video_ids, metadata_list, item_idx, transcript_map,
                    missing, caption_log, load_count, audio_log, stt_log >>

\* main: collect_transcripts has returned (the history of its working area is
\* gone); final_data = merge_data(metadata_list, transcript_map); the entries of
\* metadata_list are updated in place and the same list is returned.
MergeFree ==
    /\ pc = "f_merge"
    /\ final_data' = merge_data_free(metadata_list, transcript_map)
    /\ metadata_list' = merge_data_free(metadata_list, transcript_map)
    /\ pc' = "export"
    /\ released' = {}
    /\ UNCHANGED << edition, exported, apiVars, pureVars, use_whisper, WHISPER_AVAILABLE,
                    video_ids, item_idx, transcript_map, missing, temp_dir, caption_log,
                    load_count, audio_log, stt_log >>

Next ==
    \/ MetaInvoke
    \/ MetaExhausted
    \/ TranscriptsStart
    \/ TransBatch
    \/ SingleStart
    \/ SingleCall
    \/ SingleDone
    \/ TransExhausted
    \/ Merge
    \/ Export

Spec == InitApi /\ [][Next]_vars

NextFree ==
    \/ ListShorts
    \/ CollectMetadataStep
    \/ CollectMetadataDone
    \/ CaptionStep
    \/ CaptionsDone
    \/ LoadModel
    \/ FallbackItem
    \/ FallbackItemEscapes
    \/ FallbackDone
    \/ MergeFree
    \/ Export

SpecFree == InitFree /\ [][NextFree]_vars

\* Either edition.
InitAll == InitApi \/ InitFree
NextAll == Next \/ NextFree
SpecAll == InitAll /\ [][NextAll]_vars

\* ------------------------------------------------ merge_data on its own
UrlNoId == <<"h","t","t","p","s",":","/","/","y","o","u","t","u",".","b","e","/">>

\* Metadata records whose identifier extraction yields nothing: a null id
\* field, and a short-domain URL that stops after the slash.
MetaNullId == [ id |-> PyNone, title |-> PyStr(<<"V">>) ]
MetaUrlNoId == [ url |-> PyStr(UrlNoId), title |-> PyStr(<<"W">>) ]
MergeMeta == {MetaA, MetaB, MetaNullId, MetaUrlNoId}

\* Transcript records whose identifier cannot be extracted: no id field and no
\* URL, a null id field, a URL that stops after the slash.
TrNoId == [ text |-> PyStr(<<"z">>) ]
TrNullId == [ id |-> PyNone, transcript |-> PyStr(<<"q">>) ]
TrUrlNoId == [ url |-> PyStr(UrlNoId), text |-> PyStr(<<"w">>) ]
MergeTrans == {TrA, TrD, TrNoId, TrNullId, TrUrlNoId}

\* main at the call of merge_data: metadata records there are (else main has
\* exited), and the transcript records are what collect_transcripts may
\* return, nothing or a record set that passed _has_transcript.
InitMerge ==
    /\ pc = "merge"
    /\ edition = "api"
    /\ final_data = <<>>
    /\ exported = FALSE
    /\ shorts_data \in SeqsUpTo(MergeMeta, MaxRecs) \ {<<>>}
    /\ transcripts \in {t \in SeqsUpTo(MergeTrans, MaxRecs) : t = <<>> \/ _has_transcript(t)}
    /\ actor_idx = 1
    /\ video_urls = <<>>
    /\ url_idx = 1
    /\ all_items = <<>>
    /\ tried = <<>>
    /\ last_out = <<>>
    /\ calls = <<>>
    /\ url_outs = <<>>
    /\ pred_evals = <<>>
    /\ FreeIdle
    /\ PureIdle

NextMerge ==
    \/ Merge
    \/ Export

SpecMerge == InitMerge /\ [][NextMerge]_vars

\* ------------------------------------- the pure functions on their own
\* A field a record does not have.
Absent == [t |-> "absent"]

\* The record with the one field k, or with no field when v is Absent.
Field(k, v) == IF v = Absent THEN EmptyMap ELSE (k :> v)

IdC == <<"c","3">>
IdV == <<"v","9">>
Https == <<"h","t","t","p","s",":","/","/">>

\* What may follow the identifier in a URL: nothing, a query string, a further
\* parameter, a fragment.
Trailers == { Empty, <<"?","f","=","1">>, <<"&","t","=","1">>, <<"#","x">> }

\* URLs of the three conventions for the video b2, and a URL of none of them.
ConventionUrls ==
    { Https \o pat \o IdB \o tr : pat \in {PatShorts, PatWatch, PatShortDomain},
                                  tr \in Trailers }
OtherUrl == Https \o <<"e","x",".","c","o","/","b","2">>

\* The records extract_video_id is applied to: each id field absent, null,
\* empty or set; each URL field absent or set.
IdInputs ==
    { Field("id", a) @@ Field("videoId", b) @@ Field("url", u) @@ Field("videoUrl", w) :
        a \in {Absent, PyNone, PyStr(Empty), PyStr(IdA)},
        b \in {Absent, PyStr(IdV)},
        u \in {Absent, PyStr(OtherUrl)} \cup {PyStr(x) : x \in ConventionUrls},
        w \in {Absent, PyStr(Https \o PatShorts \o IdC)} }

InitExtractVideoId ==
    /\ pc = "x_id"
    /\ arg \in IdInputs

\* video_id = extract_video_id(item)
ApplyExtractVideoId ==
    /\ pc = "x_id"
    /\ result' = extract_video_id(arg)
    /\ pc' = "x_id_done"
    /\ UNCHANGED << arg, edition, final_data, exported, apiVars, freeVars >>

\* Segments of a caption list: dictionaries with a text, with an empty text,
\* with a content field only, and a segment that is a bare string.
TextSegments ==
    { PyDict([text |-> PyStr(<<"a">>)]), PyDict([text |-> PyStr(<<"b">>)]),
      PyDict([text |-> PyStr(<<"c">>)]), PyDict([text |-> PyStr(Empty)]),
      PyDict([content |-> PyStr(<<"d">>)]), PyStr(<<"e">>) }

\* The values extract_transcript_text is applied to: strings, segment lists,
\* dictionaries, and values of other types.
TextInputs ==
    { PyStr(Empty), PyStr(<<"a">>), PyStr(<<"a"," ","b">>), PyStr(NA) }
    \cup { PyList(l) : l \in SeqsUpTo(TextSegments, MaxSegs) }
    \cup { PyDict([text |-> PyStr(<<"a">>)]), PyDict([content |-> PyStr(<<"b">>)]),
           PyDict(EmptyMap), PyInt(7), PyNone }

InitExtractTranscriptText ==
    /\ pc = "x_text"
    /\ arg \in TextInputs

\* text = extract_transcript_text(data)
ApplyExtractTranscriptText ==
    /\ pc = "x_text"
    /\ result' = extract_transcript_text(arg)
    /\ pc' = "x_text_done"
    /\ UNCHANGED << arg, edition, final_data, exported, apiVars, freeVars >>

\* Raw values of a numeric field: absent, numbers (zero among them), a count
\* with thousands separators, a text that is no number, the empty string.
CountValues ==
    { Absent, PyInt(0), PyInt(7), PyStr(<<"1","2",",","0","0","0">>), PyStr(NA),
      PyStr(Empty) }
ViewValues == CountValues \cup { PyStr(<<"1",",","2","3","4"," ","v","i","e","w","s">>) }
LikeValues == CountValues \cup { PyStr(<<"1",",","2","3","4"," ","l","i","k","e","s">>) }

\* Metadata records that differ in their numeric fields.
NumericRecs ==
    { Field("viewCount", a) @@ Field("views", b) @@ Field("likeCount", c) @@ Field("likes", d) :
        a \in ViewValues, b \in {Absent, PyInt(5)},
        c \in LikeValues, d \in {Absent, PyInt(5)} }

\* Metadata records that differ in their title, date and URL fields.
AttrRecs ==
    { Field("title", a) @@ Field("name", b) @@ Field("uploadDate", c) @@ Field("date", d)
      @@ Field("url", u) @@ Field("videoUrl", w) :
        a \in {Absent, PyStr(Empty), PyStr(<<"T">>)}, b \in {Absent, PyStr(<<"N">>)},
        c \in {Absent, PyStr(Empty), PyStr(<<"2","0","2","4">>)},
        d \in {Absent, PyStr(<<"2","0","2","3">>)},
        u \in {Absent, PyStr(Empty), PyStr(OtherUrl)},
        w \in {Absent, PyStr(Https \o PatShorts \o IdC)} }

InitMergeRecord ==
    /\ pc = "x_rec"
    /\ arg \in NumericRecs \cup AttrRecs

\* merge_data([short], []): the canonical record of one metadata record.
ApplyMergeRecord ==
    /\ pc = "x_rec"
    /\ result' = merge_data(<<arg>>, <<>>)[1]
    /\ pc' = "x_rec_done"
    /\ UNCHANGED << arg, edition, final_data, exported, apiVars, freeVars >>

\* A function of the API edition is applied once to one input.
InitFn ==
    /\ edition = "api"
    /\ final_data = <<>>
    /\ exported = FALSE
    /\ ApiIdle
    /\ FreeIdle
    /\ result = PyNone
    /\ \/ InitExtractVideoId
       \/ InitExtractTranscriptText
       \/ InitMergeRecord

NextFn ==
    \/ ApplyExtractVideoId
    \/ ApplyExtractTranscriptText
    \/ ApplyMergeRecord

SpecFn == InitFn /\ [][NextFn]_vars

\* ------------------------------------------------------ claims: API loops
\* The attempts of a loop are providers 1, 2, ... in list order, one entry each.
InListOrder(log) == \A i \in 1..Len(log) : log[i].p = i

\* Every attempt but the latest failed.
EarlierFailed(log) == \A i \in 1..(Len(log) - 1) : log[i].failed

LatestSucceeded(log) == log # <<>> /\ ~log[Len(log)].failed

\* The invocations n attempted transcript providers make for nurls URLs: one
\* call of a batch actor, one call per URL, in URL order, of a per-item actor.
RECURSIVE ExpectedCalls(_, _)
ExpectedCalls(n, nurls) ==
    IF n = 0 THEN <<>>
    ELSE ExpectedCalls(n - 1, nurls)
         \o (IF TRANSCRIPT_ACTORS[n] THEN << [p |-> n, u |-> 0] >>
             ELSE [i \in 1..nurls |-> [p |-> n, u |-> i]])

\* The records of the URLs whose invocation did not fail, in URL order.
RECURSIVE ConcatOk(_)
ConcatOk(outs) ==
    IF outs = <<>> THEN <<>>
    ELSE (IF Head(outs).raised THEN <<>> ELSE Head(outs).items) \o ConcatOk(Tail(outs))

\* C1: in both fallback loops the attempts are providers 1..k+1 in list order,
\* each once; every attempt before the latest failed; a successful attempt is
\* the last one (no later provider is invoked) and the loop returns exactly
\* the record set of that attempt.
C1_FirstSuccessWins ==
    /\ pc \in {"meta", "urls", "trans", "single", "merge"} =>
          /\ InListOrder(tried)
          /\ EarlierFailed(tried)
    /\ pc \in {"meta", "trans", "single"} => ~LatestSucceeded(tried)
    /\ pc = "urls" => LatestSucceeded(tried) /\ shorts_data = last_out
    /\ pc = "merge" /\ LatestSucceeded(tried) => transcripts = last_out
    /\ pc \in {"trans", "merge"} => calls = ExpectedCalls(Len(tried), Len(video_urls))

\* First k >= 4 transcript providers failed, a per-item one among them, and
\* provider k+1 succeeded.
C1_Witness ==
    /\ pc = "merge"
    /\ Len(tried) >= 5
    /\ Len(tried) < Len(TRANSCRIPT_ACTORS)
    /\ LatestSucceeded(tried)
    /\ Len(transcripts) = 2

\* C9: a per-item attempt calls the actor for every URL in input order
\* whatever fails, gathers exactly the records of the URLs that did not fail,
\* and the predicate sees that aggregate once; the attempt fails only if the
\* aggregate fails the predicate.
C9_PerItemIsolation ==
    /\ pc = "single" =>
          /\ Len(url_outs) = url_idx - 1
          /\ all_items = ConcatOk(url_outs)
          /\ calls = ExpectedCalls(Len(tried), Len(video_urls))
                     \o [i \in 1..Len(url_outs) |-> [p |-> actor_idx, u |-> i]]
    /\ (pc \in {"trans", "merge"} /\ tried # <<>>
        /\ ~TRANSCRIPT_ACTORS[tried[Len(tried)].p]) =>
          /\ Len(url_outs) = Len(video_urls)
          /\ calls = ExpectedCalls(Len(tried), Len(video_urls))
          /\ pred_evals = << ConcatOk(url_outs) >>
          /\ tried[Len(tried)].failed = ~_has_transcript(ConcatOk(url_outs))
          /\ pc = "merge" <=> ~tried[Len(tried)].failed
          /\ pc = "merge" => transcripts = ConcatOk(url_outs)

\* A per-item attempt in which the first URL failed and a later one gave the
\* records the attempt returned.
C9_Witness ==
    /\ pc = "merge"
    /\ tried # <<>>
    /\ ~TRANSCRIPT_ACTORS[tried[Len(tried)].p]
    /\ Len(url_outs) = 2
    /\ url_outs[1].raised
    /\ ~url_outs[2].raised
    /\ transcripts = url_outs[2].items
    /\ transcripts # <<>>

\* C10: when every provider of a list failed, every provider was attempted
\* once in list order, the loop returns the empty list, and no error leaves
\* the loop.
C10_AllFailReturnsEmpty ==
    /\ edition = "api" => pc # "crashed"
    /\ (edition = "api" /\ pc = "exit") =>
          /\ Len(tried) = Len(METADATA_ACTORS)
          /\ InListOrder(tried)
          /\ \A i \in 1..Len(tried) : tried[i].failed
          /\ shorts_data = <<>>
    /\ (pc = "merge" /\ tried # <<>> /\ ~LatestSucceeded(tried)) =>
          /\ Len(tried) = Len(TRANSCRIPT_ACTORS)
          /\ InListOrder(tried)
          /\ \A i \in 1..Len(tried) : tried[i].failed
          /\ calls = ExpectedCalls(Len(TRANSCRIPT_ACTORS), Len(video_urls))
          /\ transcripts = <<>>
    /\ (pc = "meta" /\ actor_idx > Len(METADATA_ACTORS)) =>
          Len(tried) = Len(METADATA_ACTORS)
    /\ (pc = "trans" /\ actor_idx > Len(TRANSCRIPT_ACTORS)) =>
          Len(tried) = Len(TRANSCRIPT_ACTORS)

\* All eleven transcript providers failed, for two URLs, and the loop returned.
C10_Witness ==
    /\ pc = "merge"
    /\ Len(tried) = Len(TRANSCRIPT_ACTORS)
    /\ \A i \in 1..Len(tried) : tried[i].failed
    /\ Len(video_urls) = 2
    /\ transcripts = <<>>

\* ---------------------------------------------------- claims: whole runs
\* The title merge_data gives a metadata record.
TitleOf(short) == Or(Or(Get(short, "title"), Get(short, "name")), PyStr(NA))

\* C2: the merge gives one canonical record per metadata record, in the order
\* of the metadata records, records without id or transcript included and
\* records of one video id all kept (API: per shorts_data record; free: per
\* listed id, collect_metadata giving one entry per id).
C2_OneRecordPerMetadataRecord ==
    /\ (edition = "api" /\ pc \in {"export", "done"}) =>
          /\ Len(final_data) = Len(shorts_data)
          /\ \A i \in 1..Len(shorts_data) :
                /\ final_data[i].title = TitleOf(shorts_data[i])
                /\ final_data[i].video_id = extract_video_id(shorts_data[i])
    /\ (edition = "free" /\ pc \in {"f_captions", "f_load", "f_fallback", "f_merge"}) =>
          /\ Len(metadata_list) = Len(video_ids)
          /\ \A i \in 1..Len(video_ids) : metadata_list[i].video_id = video_ids[i]
    /\ (edition = "free" /\ pc \in {"export", "done"}) =>
          /\ Len(final_data) = Len(video_ids)
          /\ \A i \in 1..Len(video_ids) :
                /\ final_data[i].video_id = video_ids[i]
                /\ "transcript" \in DOMAIN final_data[i]

\* A merge of a record without identifier followed by a record with one, no
\* transcript for either.
C2_Witness ==
    /\ edition = "api"
    /\ pc = "export"
    /\ Len(shorts_data) = 2
    /\ ~Truthy(final_data[1].video_id)
    /\ Truthy(final_data[2].video_id)
    /\ final_data[1].transcript = PyStr(NA)
    /\ final_data[2].transcript = PyStr(NA)

\* Two metadata records of one video id, both kept (free edition).
C2_WitnessDuplicates ==
    /\ edition = "free"
    /\ pc = "done"
    /\ Len(final_data) = 2
    /\ final_data[1].video_id = final_data[2].video_id

\* The metadata stage yielded records.
MetadataYielded ==
    \/ edition = "api" /\ shorts_data # <<>>
    \/ edition = "free" /\ metadata_list # <<>>

\* C3 (as claimed): once the metadata stage has yielded records nothing ends
\* the run before the export, and the export has one record per metadata
\* record.
C3_TranscriptFailuresNeverFatal ==
    MetadataYielded =>
        /\ pc \notin {"exit", "crashed"}
        /\ pc = "done" =>
              /\ exported
              /\ Len(final_data) = IF edition = "api" THEN Len(shorts_data)
                                   ELSE Len(metadata_list)

\* C4: when the metadata stage (API) or the listing (free) returns nothing
\* the run ends there: it exits with no provider call or caption lookup made,
\* no merge, no export, and nothing runs after the exit; and no later stage is
\* ever entered with an empty record set.
C4_EmptyMetadataIsFatal ==
    /\ pc = "exit" =>
          /\ ~ENABLED NextAll
          /\ calls = <<>>
          /\ transcripts = <<>>
          /\ caption_log = <<>>
          /\ audio_log = <<>>
          /\ load_count = 0
          /\ metadata_list = <<>>
          /\ final_data = <<>>
          /\ ~exported
    /\ (edition = "api" /\ pc \in {"urls", "trans", "single", "merge", "export", "done"}) =>
          shorts_data # <<>>
    /\ (edition = "free" /\ pc \notin {"f_list", "exit", "crashed"}) => video_ids # <<>>
    /\ (edition = "api" /\ pc = "meta" /\ actor_idx > Len(METADATA_ACTORS)) =>
          calls = <<>> /\ ~exported

\* Every metadata provider was tried and failed, and the run exited.
C4_Witness ==
    /\ edition = "api"
    /\ pc = "exit"
    /\ Len(tried) = Len(METADATA_ACTORS)
    /\ shorts_data = <<>>

\* ------------------------------------------- claims: two-phase pipeline
\* collect_transcripts (free) has returned.
TranscriptsReturned == edition = "free" /\ pc \in {"f_merge", "export", "done"}

\* The ids of a log, as a set.
IdsOf(log) == {log[i] : i \in 1..Len(log)}

\* C5: with the fallback disabled or Whisper not installed, the model is never
\* loaded, no audio is downloaded, nothing is transcribed, and every id whose
\* caption lookup returned nothing ends "N/A".
C5_NoFallbackWithoutWhisper ==
    (edition = "free" /\ (~use_whisper \/ ~WHISPER_AVAILABLE)) =>
        /\ load_count = 0
        /\ audio_log = <<>>
        /\ stt_log = <<>>
        /\ temp_dir = {}
        /\ pc \notin {"f_load", "f_fallback"}
        /\ TranscriptsReturned =>
              \A i \in 1..Len(missing) :
                 /\ missing[i] \in DOMAIN transcript_map
                 /\ transcript_map[missing[i]] = PyStr(NA)

\* The fallback is disabled though Whisper is installed; one id has captions
\* and one has none.
C5_Witness ==
    /\ TranscriptsReturned
    /\ ~use_whisper
    /\ WHISPER_AVAILABLE
    /\ Len(video_ids) = 2
    /\ Len(missing) = 1
    /\ transcript_map[missing[1]] = PyStr(NA)

\* The ids for which some caption lookup returned text.
CaptionFound == {caption_log[i].id : i \in {j \in 1..Len(caption_log) : caption_log[j].found}}

\* C6 (as claimed): an id for which a caption lookup returned text is never
\* downloaded or transcribed, and the returned map gives it text, not "N/A".
C6_CaptionFoundIsTerminal ==
    \A id \in CaptionFound :
        /\ id \notin IdsOf(audio_log)
        /\ id \notin IdsOf(stt_log)
        /\ TranscriptsReturned => transcript_map[id] # PyStr(NA)

\* C7: no item failure stops the pipeline: every id is looked up, every
\* missing id gets its fallback attempt when the fallback runs, and the
\* returned map has, for every input id, non-empty text or "N/A".
C7_ItemFailuresIsolated ==
    /\ (edition = "free" /\ pc = "f_captions") =>
          /\ Len(caption_log) = item_idx - 1
          /\ \A i \in 1..Len(caption_log) : caption_log[i].id = video_ids[i]
    /\ (edition = "free" /\ pc = "f_fallback") =>
          audio_log = SubSeq(missing, 1, item_idx - 1)
    /\ TranscriptsReturned =>
          /\ Len(caption_log) = Len(video_ids)
          /\ \A i \in 1..Len(video_ids) : caption_log[i].id = video_ids[i]
          /\ load_count > 0 => audio_log = missing
          /\ \A i \in 1..Len(video_ids) :
                /\ video_ids[i] \in DOMAIN transcript_map
                /\ transcript_map[video_ids[i]].t = "str"
                /\ transcript_map[video_ids[i]].v # <<>>

\* Two ids without captions: the fallback of the first failed ("N/A"), the
\* second was still transcribed.
C7_Witness ==
    /\ TranscriptsReturned
    /\ Len(missing) = 2
    /\ missing[1] # missing[2]
    /\ audio_log = missing
    /\ stt_log = <<missing[2]>>
    /\ transcript_map[missing[1]] = PyStr(NA)
    /\ transcript_map[missing[2]] # PyStr(NA)

\* C8 (as claimed): when the attempt of a fallback item is about to start,
\* the temporary directory holds no file of an item already attempted.
C8_NoArtifactAfterItem ==
    (edition = "free" /\ pc = "f_fallback" /\ item_idx <= Len(missing)) =>
        \A k \in 1..(item_idx - 1) :
            \A f \in temp_dir : f[1] # missing[k]

\* ------------------------------------------------ claims: order of items
\* The ids of the caption lookups that found nothing, in lookup order.
RECURSIVE NotFoundIds(_)
NotFoundIds(log) ==
    IF log = <<>> THEN <<>>
    ELSE (IF Head(log).found THEN <<>> ELSE << Head(log).id >>) \o NotFoundIds(Tail(log))

\* s is the beginning of t.
IsPrefix(s, t) == Len(s) <= Len(t) /\ s = SubSeq(t, 1, Len(s))

\* C11: in every per-item phase the items are taken one after the other in
\* input order (the k-th step of a phase is about the k-th item, and a phase
\* has handled exactly the items before its index); no fallback attempt
\* happens before every id had its caption lookup, and the fallback items are
\* the ids without captions in the order of the input.
C11_ItemsInInputOrder ==
    /\ \A i \in 1..Len(metadata_list) : metadata_list[i].video_id = video_ids[i]
    /\ pc = "f_meta" => Len(metadata_list) = item_idx - 1
    /\ IsPrefix([i \in 1..Len(caption_log) |-> caption_log[i].id], video_ids)
    /\ pc = "f_captions" => Len(caption_log) = item_idx - 1
    /\ missing = NotFoundIds(caption_log)
    /\ pc \in {"f_load", "f_fallback"} \/ audio_log # <<>> =>
          Len(caption_log) = Len(video_ids)
    /\ IsPrefix(audio_log, missing)
    /\ pc = "f_fallback" => Len(audio_log) = item_idx - 1
    /\ \A i \in 1..Len(calls) :
          calls[i].u > 0 =>
             \/ calls[i].u = 1
             \/ /\ i > 1
                /\ calls[i - 1].p = calls[i].p
                /\ calls[i - 1].u = calls[i].u - 1

\* Two different ids had no captions and both went through the fallback, in
\* the order of the input.
C11_Witness ==
    /\ pc = "f_merge"
    /\ Len(video_ids) = 2
    /\ video_ids[1] # video_ids[2]
    /\ audio_log = video_ids

\* ------------------------------------------------------- claims: the merge
\* No value occurs twice in s.
Distinct(s) == \A i, j \in 1..Len(s) : i # j => s[i] # s[j]

\* The identifiers extract_video_id gives for the records of a list.
ExtractedIds(recs) == [i \in 1..Len(recs) |-> extract_video_id(recs[i])]

\* The normalized transcript text of the records of a list.
NormalizedTexts(recs) ==
    [i \in 1..Len(recs) |-> extract_transcript_text(TranscriptPayload(recs[i]))]

\* The metadata records have pairwise distinct extractable ids, and the
\* transcript stage returned one transcript (a record with an id and a
\* non-empty text) for each id of a subset of them.
TranscriptsForSubset ==
    /\ \A i \in 1..Len(shorts_data) : Truthy(ExtractedIds(shorts_data)[i])
    /\ Distinct(ExtractedIds(shorts_data))
    /\ Distinct(ExtractedIds(transcripts))
    /\ \A j \in 1..Len(transcripts) :
          /\ Truthy(NormalizedTexts(transcripts)[j])
          /\ \E i \in 1..Len(shorts_data) :
                ExtractedIds(transcripts)[j] = ExtractedIds(shorts_data)[i]

\* The transcript the claim expects for the metadata record of identifier id.
ExpectedTranscript(id) ==
    IF \E j \in 1..Len(transcripts) : ExtractedIds(transcripts)[j] = id
    THEN NormalizedTexts(transcripts)[
             CHOOSE j \in 1..Len(transcripts) : ExtractedIds(transcripts)[j] = id]
    ELSE PyStr(NA)

\* C12: for metadata records with pairwise distinct ids and transcripts for a
\* subset S of them, the merged output has one record per metadata record in
\* metadata order; the record of an id in S carries that id's normalized
\* transcript text and every other record carries "N/A" (both editions).
C12_SubsetGetsTextOthersNA ==
    /\ (edition = "api" /\ pc \in {"export", "done"} /\ TranscriptsForSubset) =>
          /\ Len(final_data) = Len(shorts_data)
          /\ \A i \in 1..Len(shorts_data) :
                /\ final_data[i].video_id = ExtractedIds(shorts_data)[i]
                /\ final_data[i].transcript =
                       ExpectedTranscript(ExtractedIds(shorts_data)[i])
    /\ (edition = "free" /\ pc \in {"export", "done"} /\ Distinct(video_ids)) =>
          /\ Len(final_data) = Len(video_ids)
          /\ \A i \in 1..Len(video_ids) :
                /\ final_data[i].video_id = video_ids[i]
                /\ final_data[i].transcript = transcript_map[video_ids[i]]
                /\ Truthy(final_data[i].transcript)
                /\ caption_log[i].found \/ video_ids[i] \in IdsOf(stt_log)
                   \/ final_data[i].transcript = PyStr(NA)

\* Two metadata records with different ids and a transcript for the first
\* only: the output is [text, "N/A"].
C12_Witness ==
    /\ edition = "api"
    /\ pc = "export"
    /\ TranscriptsForSubset
    /\ Len(shorts_data) = 2
    /\ Len(transcripts) = 1
    /\ final_data[1].transcript = NormalizedTexts(transcripts)[1]
    /\ final_data[1].transcript # PyStr(NA)
    /\ final_data[2].transcript = PyStr(NA)

\* C13: in the merge a metadata record gets "N/A" when no transcript record
\* with an extractable identifier has its identifier, which is the case of
\* every metadata record whose own extraction yields none: a transcript record
\* without an extractable identifier supplies a transcript to no record.
C13_UnmatchedAndNoIdGetNA ==
    (edition = "api" /\ pc \in {"export", "done"}) =>
        /\ Len(final_data) = Len(shorts_data)
        /\ \A i \in 1..Len(shorts_data) :
              /\ ~Truthy(ExtractedIds(shorts_data)[i]) =>
                    final_data[i].transcript = PyStr(NA)
              /\ (\A j \in 1..Len(transcripts) :
                     \/ ~Truthy(ExtractedIds(transcripts)[j])
                     \/ ExtractedIds(transcripts)[j] # ExtractedIds(shorts_data)[i]) =>
                    final_data[i].transcript = PyStr(NA)

\* A metadata record with a null identifier merged with a transcript record
\* whose identifier is null too and that carries a text; and a record with an
\* identifier no transcript record has.
C13_Witness ==
    /\ edition = "api"
    /\ pc = "export"
    /\ shorts_data = << MetaNullId, MetaA >>
    /\ transcripts = << TrNullId, TrD >>
    /\ final_data[1].transcript = PyStr(NA)
    /\ final_data[2].transcript = PyStr(NA)

\* ------------------------------------------ claims: identifier extraction
\* The direct id fields the record has.
DirectIdFields == {"id", "videoId"} \cap DOMAIN arg

\* C14 as stated: on a record that has a direct id field the result is the
\* value of a direct id field of the record, whatever its URL fields are
\* (a null and an empty value both count as the same "no identifier").
C14_DirectIdUnconditional ==
    (pc = "x_id_done" /\ DirectIdFields # {}) =>
        \/ result \in {arg[k] : k \in DirectIdFields}
        \/ ~Truthy(result) /\ \A k \in DirectIdFields : ~Truthy(arg[k])

\* C14: on a record whose "id" field holds a non-empty value the result is
\* that value, and on one whose "id" is absent, null or empty and whose
\* "videoId" holds a non-empty value it is that one, whatever the URL fields
\* are; only when neither holds a value are the URL fields looked at.
C14_NonEmptyDirectIdWins ==
    pc = "x_id_done" =>
        /\ Truthy(Get(arg, "id")) => result = arg["id"]
        /\ (~Truthy(Get(arg, "id")) /\ Truthy(Get(arg, "videoId"))) =>
              result = arg["videoId"]

\* The record has the id a1 and a short-form URL that names the video b2.
C14_Witness ==
    /\ pc = "x_id_done"
    /\ Get(arg, "id") = PyStr(IdA)
    /\ Get(arg, "url") = PyStr(Https \o PatShorts \o IdB)
    /\ result = PyStr(IdA)

\* The URL extract_video_id looks at: url, else videoUrl, else none.
UrlOf(item) == Or(Get(item, "url"), Get(item, "videoUrl"))

\* What follows the identifier in a URL of the convention pat: nothing, a
\* fragment, or the query part as that convention writes it.
TrailersOf(pat) ==
    IF pat = PatWatch THEN {Empty, <<"&","t","=","1">>, <<"#","x">>}
    ELSE {Empty, <<"?","f","=","1">>, <<"#","x">>}

\* C15: on a record without a direct id field whose URL follows one of the
\* three conventions, with any trailing query string or fragment, the result
\* is exactly the identifier of the URL; on a record without a direct id
\* field and without a URL of a convention there is no identifier.
C15_IdFromUrlWithoutTrailer ==
    (pc = "x_id_done" /\ DirectIdFields = {}) =>
        /\ \A pat \in {PatShorts, PatWatch, PatShortDomain} :
              \A tr \in TrailersOf(pat) :
                 UrlOf(arg) = PyStr(Https \o pat \o IdB \o tr) => result = PyStr(IdB)
        /\ UrlOf(arg) \in {PyNone, PyStr(OtherUrl)} => ~Truthy(result)

\* ------------------------------------------- claims: the canonical fields
\* s ends with u.
HasSuffix(s, u) == Len(u) <= Len(s) /\ SubSeq(s, Len(s) - Len(u) + 1, Len(s)) = u

\* The unit suffixes of the two numeric fields.
UnitSuffixes == { ViewsSuffix, <<" ","l","i","k","e","s">> }

\* s without its thousands separators and without a trailing unit suffix.
Cleaned(s) ==
    LET c == Remove(s, <<",">>)
    IN IF \E u \in UnitSuffixes : HasSuffix(c, u)
       THEN SubSeq(c, 1, Len(c) - Len(CHOOSE u \in UnitSuffixes : HasSuffix(c, u)))
       ELSE c

\* What the claimed coercion makes of the raw string s: the integer it
\* denotes once cleaned, otherwise a string.
CoercedAsClaimed(s, out) ==
    IF IsIntLiteral(Cleaned(s)) THEN out = PyInt(IntValue(Cleaned(s))) ELSE out.t = "str"

\* A non-empty string.
IsText(x) == x.t = "str" /\ x.v # Empty

\* C16: a non-empty string value of either numeric field (the only candidate field the
\* record has) loses its thousands separators and its trailing unit suffix
\* and becomes an integer; when what is left is no integer, the field stays
\* a string.
C16_CoercionAlikeForViewsAndLikes ==
    pc = "x_rec_done" =>
        /\ (IsText(Get(arg, "viewCount")) /\ "views" \notin DOMAIN arg) =>
              CoercedAsClaimed(arg["viewCount"].v, result.views)
        /\ (IsText(Get(arg, "likeCount")) /\ "likes" \notin DOMAIN arg) =>
              CoercedAsClaimed(arg["likeCount"].v, result.likes)

\* The candidate field names of an attribute that the record has, by position.
PresentAt(item, names) == {i \in 1..Len(names) : names[i] \in DOMAIN item}

\* The value of the first candidate field name the record has.
FirstPresent(item, names) ==
    item[names[CHOOSE i \in PresentAt(item, names) :
                   \A j \in PresentAt(item, names) : i <= j]]

\* The canonical attribute out is the value of the first candidate field the
\* record has, when that value is a non-empty text (an empty text is read as
\* no value at all, in the claim's favour).
TakesFirstPresent(item, names, out) ==
    (PresentAt(item, names) # {} /\ IsText(FirstPresent(item, names))) =>
        out = FirstPresent(item, names)

\* The same for a numeric attribute, when that value is a number.
TakesFirstPresentNumber(item, names, out) ==
    (PresentAt(item, names) # {} /\ FirstPresent(item, names).t = "int") =>
        out = FirstPresent(item, names)

\* C17: each canonical attribute is the value of the first candidate field
\* name, in the attribute's priority order, that the metadata record has; a
\* numeric value (zero included) of views or likes is carried as it is.
C17_FirstPresentCandidateWins ==
    pc = "x_rec_done" =>
        /\ TakesFirstPresentNumber(arg, <<"viewCount", "views", "view_count">>, result.views)
        /\ TakesFirstPresentNumber(arg, <<"likeCount", "likes", "like_count">>, result.likes)
        /\ TakesFirstPresent(arg, <<"title", "name">>, result.title)
        /\ TakesFirstPresent(arg, <<"uploadDate", "date", "publishedAt">>, result.release_date)
        /\ TakesFirstPresent(arg, <<"url", "videoUrl">>, result.video_url)

\* ------------------------------------------ claims: transcript normalizing
\* Every segment of the list is a dictionary with a text field.
CaptionSegments(l) ==
    \A i \in 1..Len(l) : l[i].t = "dict" /\ "text" \in DOMAIN l[i].v

\* Where the i-th text starts in the texts joined by single spaces.
RECURSIVE SegStart(_, _)
SegStart(texts, i) ==
    IF i = 1 THEN 1 ELSE SegStart(texts, i - 1) + Len(texts[i - 1]) + 1

\* r is the texts in their order with exactly one space between neighbours.
JoinedBySingleSpaces(r, texts) ==
    IF texts = <<>> THEN r = Empty
    ELSE /\ Len(r) = SegStart(texts, Len(texts)) + Len(texts[Len(texts)]) - 1
         /\ \A i \in 1..Len(texts) :
               SubSeq(r, SegStart(texts, i), SegStart(texts, i) + Len(texts[i]) - 1)
                  = texts[i]
         /\ \A i \in 2..Len(texts) : r[SegStart(texts, i) - 1] = " "

\* C18: extract_transcript_text returns a string as it is, so that applying
\* it to its own result changes nothing, and turns a list of caption segments
\* into their text fields in segment order, joined by single spaces.
C18_StringUnchangedSegmentsJoined ==
    pc = "x_text_done" =>
        /\ arg.t = "str" =>
              /\ result = arg
              /\ extract_transcript_text(result) = result
        /\ (arg.t = "list" /\ CaptionSegments(arg.v)) =>
              /\ result.t = "str"
              /\ JoinedBySingleSpaces(
                     result.v, [i \in 1..Len(arg.v) |-> arg.v[i].v["text"].v])

\* The segments a, b, c gave "a b c".
C18_Witness ==
    /\ pc = "x_text_done"
    /\ arg = PyList(<< PyDict([text |-> PyStr(<<"a">>)]), PyDict([text |-> PyStr(<<"b">>)]),
                       PyDict([text |-> PyStr(<<"c">>)]) >>)
    /\ result = PyStr(<<"a"," ","b"," ","c">>)

\* A string went through unchanged.
C18_WitnessString ==
    /\ pc = "x_text_done"
    /\ arg = PyStr(<<"a"," ","b">>)
    /\ result = arg

\* ------------------------------------------------ claims: purity of merge
\* C19: the step that calls merge_data, in either edition, leaves the
\* metadata records and the transcript-stage input (records or transcript
\* map) as they were: no field added, removed or rewritten.
C19_MergeLeavesInputsUnchanged ==
    [][(pc = "merge" \/ pc = "f_merge") =>
          (shorts_data' = shorts_data /\ transcripts' = transcripts
           /\ metadata_list' = metadata_list /\ transcript_map' = transcript_map)]_vars

\* C20: the transcript of every canonical record is a non-empty text (the
\* sentinel "N/A" when no transcript content was obtained), never empty and
\* never null.
C20_TranscriptIsTextOrNA ==
    pc \in {"export", "done"} =>
        \A i \in 1..Len(final_data) : IsText(final_data[i].transcript)

\* ------------------------------------------------- claims: release date
\* s has the form YYYY-MM-DD.
IsIsoDate(s) ==
    /\ Len(s) = 10
    /\ \A i \in {1, 2, 3, 4, 6, 7, 9, 10} : s[i] \in DigitChars
    /\ s[5] = "-"
    /\ s[8] = "-"

\* C21: in both editions the release date of every canonical record is a
\* string of the form YYYY-MM-DD or exactly "N/A", whatever raw date value
\* the provider supplied.
C21_ReleaseDateIsIsoOrNA ==
    pc \in {"export", "done"} =>
        \A i \in 1..Len(final_data) :
            /\ final_data[i].release_date.t = "str"
            /\ \/ final_data[i].release_date = PyStr(NA)
               \/ IsIsoDate(final_data[i].release_date.v)

\* ------------------------------------- claims: predicate and merge agree
\* Some record of the set has non-empty content under one of the field names
\* merge_data reads.
MergeCouldUse(items) ==
    \E i \in 1..Len(items) : Truthy(TranscriptPayload(items[i]))

\* C22: the record set of a transcript provider is accepted by
\* _has_transcript exactly when one of its records has non-empty content
\* under a field name merge_data reads, so no provider whose output the merge
\* could use is passed over.
C22_PredicateAgreesWithMerge ==
    (pc \in {"trans", "merge"} /\ tried # <<>> /\ pred_evals # <<>>) =>
        (~tried[Len(tried)].failed <=> MergeCouldUse(pred_evals[1]))

\* ------------------------------------------------ claims: last writer wins
\* The positions of the transcript records that resolve to the identifier id.
WritersOf(id) ==
    {j \in 1..Len(transcripts) :
        Truthy(ExtractedIds(transcripts)[j]) /\ ExtractedIds(transcripts)[j] = id}

\* The text of the last transcript record that resolves to id.
LastWritten(id) ==
    NormalizedTexts(transcripts)[
        CHOOSE j \in WritersOf(id) : \A k \in WritersOf(id) : k <= j]

\* C23: the transcript map has exactly one entry for each identifier some
\* transcript record resolves to, holding the text of the last such record in
\* stream order, and every metadata record with that identifier gets that
\* text.
C23_LastWriterWins ==
    (edition = "api" /\ pc \in {"export", "done"}) =>
        LET m == BuildTranscriptMap(transcripts, EmptyMap)
        IN /\ DOMAIN m = {ExtractedIds(transcripts)[j] : j \in
                              {k \in 1..Len(transcripts) :
                                  Truthy(ExtractedIds(transcripts)[k])}}
           /\ \A id \in DOMAIN m : m[id] = LastWritten(id)
           /\ \A i \in 1..Len(shorts_data) :
                 WritersOf(ExtractedIds(shorts_data)[i]) # {} =>
                    final_data[i].transcript = LastWritten(ExtractedIds(shorts_data)[i])

\* Two transcript records for a1, "hi" and then "cc", and two metadata
\* records with the id a1: both get "cc".
C23_Witness ==
    /\ edition = "api"
    /\ pc = "export"
    /\ shorts_data = << MetaA, MetaA >>
    /\ transcripts = << TrA, TrC >>
    /\ final_data[1].transcript = PyStr(<<"c","c">>)
    /\ final_data[2].transcript = PyStr(<<"c","c">>)

\* -------------------------------------------- claims: the working area
\* C24: however the fallback phase was left (every item handled, or an error
\* escaping from an item), the temporary directory and every audio file
\* still in it are gone: outside the phase no audio artifact exists.
C24_WorkingAreaReleased ==
    (edition = "free" /\ pc # "f_fallback") => temp_dir = {}

\* The phase ended after its last item with an audio file still in the
\* directory, and the transcript stage returned with none.
C24_Witness ==
    /\ edition = "free"
    /\ pc = "f_merge"
    /\ audio_log = missing
    /\ released # {}
    /\ temp_dir = {}

\* An error escaped from an item while files were in the directory, and none
\* is left.
C24_WitnessEscape ==
    /\ edition = "free"
    /\ pc = "crashed"
    /\ audio_log # <<>>
    /\ released # {}
    /\ temp_dir = {}

====
